---- MODULE Spec2Model ----
(***************************************************************************)
(* Model of the mention-polling bot (src/app.py and src/main.py).          *)
(*                                                                         *)
(* The two files hold the same handle_mentions; they differ in the entry   *)
(* point: app.py runs bot_loop in a background thread and looks up its own *)
(* identity with get_me() in every cycle, main.py runs main() with the     *)
(* identity taken from USER_ID.  The variable `entry` says which of the    *)
(* two programs is running.                                                *)
(*                                                                         *)
(* The platform (the tweepy client) is the environment: it holds the set   *)
(* of mentions, hands out increasing ids, answers get_users_mentions with  *)
(* the mentions newer than since_id, newest first, and lets every call     *)
(* succeed, fail with TooManyRequests ("rate") or fail otherwise ("err").  *)
(* Reply texts and the lengths of the jitter sleeps are not state and are  *)
(* left out.                                                               *)
(***************************************************************************)
EXTENDS Integers, Sequences, FiniteSets, TLC

VARIABLES
    entry,                \* "app" (app.py bot_loop) or "main" (main.py main)
    MAX_ACTIONS_PER_RUN,  \* app.py:12 (fixed), main.py:13 (from the environment)
    pc,                   \* position of the poll loop / of handle_mentions
    first,                \* bot_loop's `first`, main's `first_loop`
    first_run,            \* handle_mentions' parameter
    stateFile,            \* content of STATE_FILE
    st,                   \* handle_mentions' local `st` / `state`
    since_id,             \* handle_mentions' local
    tweets,               \* handle_mentions' local: list(resp.data)
    i,                    \* position of `for tw in reversed(tweets)`
    actions,              \* handle_mentions' local counter
    mentions,             \* the platform: mentions of the account
    nextId,               \* the platform: next mention id it hands out
    log,                  \* history: the calls of the current cycle, in order
    ticks,                \* history: number of ticks started
    file0,                \* history: stateFile when the current cycle began
    history,              \* history: what the earlier cycles fetched and did
    faulty                \* whether the disk may fail and the process may die

vars == << entry, MAX_ACTIONS_PER_RUN, pc, first, first_run, stateFile, st,
           since_id, tweets, i, actions, mentions, nextId, log, ticks, file0,
           history, faulty >>

----------------------------------------------------------------------------
(* Bounds of the model *)

\* mention ids 1..MaxBacklog were handed out before the process started
MaxBacklog == 2
\* mentions that arrive while the process runs
MaxNew == 1
\* ticks of the poll loop
MaxTicks == 2
\* largest MAX_ACTIONS_PER_RUN the environment sets for main.py (from 0 on)
MaxBudget == 1

(* Program constants *)

\* app.py:12, and the default of main.py:13
DefaultMaxActions == 1
\* max_results with a cursor: app.py:87, main.py:91
MaxResults == 100
\* max_results without a cursor: app.py:92, main.py:93
FirstPeekResults == 10
\* time.sleep(60) after TooManyRequests: app.py:98,130,145
RateLimitSleep == 60

\* None / an absent key
NoId == 0

\* account ids: the bot's own and another account's
UserIds == 9 .. 10
MyId == CHOOSE u \in UserIds : \A v \in UserIds : u >= v

Outcomes == {"ok", "rate", "err"}

----------------------------------------------------------------------------
(* Pure helpers *)

\* str(n) of a non-negative integer, as its decimal digits
RECURSIVE Str(_)
Str(n) == IF n < 10 THEN << n >> ELSE Str(n \div 10) \o << n % 10 >>

\* reversed(s)
Reversed(s) == [k \in 1 .. Len(s) |-> s[Len(s) + 1 - k]]

\* s[:n]
Take(s, n) == IF Len(s) <= n THEN s ELSE SubSeq(s, 1, n)

\* the mentions of S, newest (largest id) first
RECURSIVE NewestFirst(_)
NewestFirst(S) ==
    IF S = {} THEN << >>
    ELSE LET m == CHOOSE x \in S : \A y \in S : x.id >= y.id
         IN  << m >> \o NewestFirst(S \ {m})

\* Python truthiness of since_id (None or a positive id)
Truthy(v) == v # NoId

----------------------------------------------------------------------------
(* State store *)

EmptyDict == [type |-> "dict", last_mention_id |-> NoId]

\* load_state(): {} when the file is absent or json.loads raises, else the
\* parsed value, which is a dict only if the file held a JSON object
load_state(file) ==
    CASE file.kind = "absent"    -> EmptyDict
      [] file.kind = "invalid"   -> EmptyDict
      [] file.kind = "nonobject" -> [type |-> "other", last_mention_id |-> NoId]
      [] OTHER                   -> [type |-> "dict",
                                     last_mention_id |-> file.last_mention_id]

\* save_state(st): the file holds json.dumps(st); an integer id is written
\* and read back as the same integer
save_state(d) == [kind |-> "object", last_mention_id |-> d.last_mention_id]

\* the persisted cursor: what a cycle reading the file would see
CursorOf(file) == load_state(file).last_mention_id

----------------------------------------------------------------------------
(* handle_mentions, piece by piece *)

\* a bug: since_id is never passed
KwargsNoSince(sid) == [since_id |-> NoId, max_results |-> MaxResults]

\* the request: since_id and max_results
Kwargs(sid) ==
    IF Truthy(sid) THEN [since_id |-> sid, max_results |-> MaxResults]
    ELSE [since_id |-> NoId, max_results |-> FirstPeekResults]

\* the platform's answer to get_users_mentions: newest first, only ids
\* larger than since_id, at most max_results of them
GetUsersMentions(kw) ==
    Take(NewestFirst({m \in mentions : kw.since_id = NoId \/ m.id > kw.since_id}),
         kw.max_results)

\* a bug: the empty page is not noticed
NoNewMentionsNever(page) == FALSE

\* `if not resp or not resp.data`
NoNewMentions(page) == page = << >>

\* a bug: the oldest id of the page is taken
OldestId(page) == page[Len(page)].id

\* `newest_id = tweets[0].id`
NewestId(page) == page[1].id

\* a bug: the first run is not suppressed
SkipOldNever(fr, sid) == FALSE

\* `if first_run and not since_id`
SkipOld(fr, sid) == fr /\ ~Truthy(sid)

\* a bug: the budget is never checked
BudgetNeverReached(n) == FALSE

\* a bug: off by one
BudgetReachedLate(n) == n > MAX_ACTIONS_PER_RUN

\* `if actions >= MAX_ACTIONS_PER_RUN: break`
BudgetReached(n) == n >= MAX_ACTIONS_PER_RUN

\* a bug: own tweets are not skipped
IsOwnNever(tw) == FALSE

\* `if str(tw.author_id) == str(me.id): continue`
IsOwn(tw) == Str(tw.author_id) = Str(MyId)

\* a bug: the page is walked newest first
Unreversed(page) == page

\* `for tw in reversed(tweets)`
LoopOrder(page) == Reversed(page)

\* a bug: a rate-limited like does not break
AfterLikeNoBreak(res) == "reply"

\* after client.like: TooManyRequests breaks, anything else goes on to reply
AfterLike(res) == IF res = "rate" THEN "advance" ELSE "reply"

\* after client.create_tweet: TooManyRequests breaks, anything else goes on
AfterReply(res) == IF res = "rate" THEN "advance" ELSE "loop"

\* a bug: every reply attempt is counted
CountEvery(n, res) == n + 1

\* a bug: the counter is never incremented
CountNothing(n, res) == n

\* `actions += 1` after a successful create_tweet only
CountReply(n, res) == IF res = "ok" THEN n + 1 ELSE n

\* a bug: only TooManyRequests is caught around the fetch
AfterFetchErrorRaise(res) == IF res = "rate" THEN "ret" ELSE "exc"

\* a failed fetch: both handlers return
AfterFetchError(res) == "ret"

Event(op, arg, res) == [op |-> op, arg |-> arg, res |-> res]

\* a TooManyRequests error carries the platform's reset time, here as the
\* seconds left until the reset, or none
NoReset == -1
Resets == {NoReset, 5, 100, 1000}

\* what an outcome carries
ResetsOf(res) == IF res = "rate" THEN Resets ELSE {NoReset}

\* a bug, or a feature: the pause lasts until the reset
PauseUntilReset(reset) == IF reset = NoReset THEN RateLimitSleep ELSE reset

\* the pause after TooManyRequests: `time.sleep(60)`, whatever the error holds
RateLimitPause(reset) == RateLimitSleep

\* the pause logged after a call that ended with res
Sleep60(res, reset) ==
    IF res = "rate"
    THEN << [op |-> "sleep", arg |-> RateLimitPause(reset), res |-> "ok",
             reset |-> reset] >>
    ELSE << >>

----------------------------------------------------------------------------
(* Initial states *)

Mention(id, a) == [id |-> id, author_id |-> a]

\* the mentions that exist when the process starts: the oldest ids handed out
\* so far (the later ones were deleted), each by some account
Backlogs ==
    UNION { { { Mention(k, f[k]) : k \in ids } : f \in [ids -> UserIds] } :
              ids \in { 1 .. n : n \in 0 .. MaxBacklog } }

\* what STATE_FILE may hold at process start: nothing, text that is not
\* JSON, JSON that is not an object, or an object with or without a cursor
\* among the ids handed out so far
StateFiles ==
    { [kind |-> k, last_mention_id |-> NoId] :
        k \in {"absent", "invalid", "nonobject"} }
    \cup { [kind |-> "object", last_mention_id |-> c] : c \in 0 .. MaxBacklog }

\* the mentions the earlier cycles had in a page whose cursor they persisted,
\* and those they liked and replied to with success
NoHistory == [seen |-> {}, liked |-> {}, replied |-> {}]

InitWith(f) ==
    /\ faulty = f
    /\ history = NoHistory
    /\ entry \in {"app", "main"}
    /\ MAX_ACTIONS_PER_RUN \in
         IF entry = "app" THEN {DefaultMaxActions} ELSE 0 .. MaxBudget
    /\ pc = "start"
    /\ first = FALSE
    /\ first_run = FALSE
    /\ stateFile \in StateFiles
    /\ st = EmptyDict
    /\ since_id = NoId
    /\ tweets = << >>
    /\ i = 1
    /\ actions = 0
    /\ mentions \in Backlogs
    /\ nextId = MaxBacklog + 1
    /\ log = << >>
    /\ ticks = 0
    /\ file0 = stateFile

\* the disk works and the process is not killed
Init == InitWith(FALSE)

\* save_state may raise, and the process may die while it writes
InitFault == InitWith(TRUE)

----------------------------------------------------------------------------
(* The platform *)

\* somebody (the bot itself included) mentions the account.  The program
\* reads the platform's mentions in the fetch only, so a mention that arrives
\* during a cycle is seen exactly like one that arrives before the next
\* tick: arrivals are taken between cycles.
NewMention ==
    /\ pc = "tick"
    /\ nextId <= MaxBacklog + MaxNew
    /\ \E a \in UserIds : mentions' = mentions \cup {Mention(nextId, a)}
    /\ nextId' = nextId + 1
    /\ UNCHANGED << entry, MAX_ACTIONS_PER_RUN, pc, first, first_run, stateFile,
                    st, since_id, tweets, i, actions, log, ticks, file0,
                    history, faulty >>

----------------------------------------------------------------------------
(* The poll loop: bot_loop (app.py:154-180), main (main.py:166-191) *)

locals == << first_run, st, since_id, tweets, i, actions >>
world == << mentions, nextId >>
config == << entry, MAX_ACTIONS_PER_RUN, faulty >>

\* get_client() and the identity: app.py catches a failure, sleeps and
\* returns from the thread; main.py lets it end the process
Startup ==
    /\ pc = "start"
    /\ \E res \in {"ok", "err"} :
         IF res = "ok"
         THEN /\ pc' = "tick"
              /\ first' = (entry = "app")
         ELSE /\ pc' = IF entry = "app" THEN "returned" ELSE "exited"
              /\ first' = first
    /\ UNCHANGED << config, history, locals, world, stateFile, log, ticks, file0 >>

\* `handle_mentions(client, first_run=first)`: the call
Tick ==
    /\ pc = "tick"
    /\ ticks < MaxTicks
    /\ ticks' = ticks + 1
    /\ first_run' = first
    /\ file0' = stateFile
    /\ log' = << >>
    /\ pc' = IF entry = "app" THEN "get_me" ELSE "load"
    /\ UNCHANGED << config, history, world, first, stateFile, st, since_id, tweets, i,
                    actions >>

\* `me = client.get_me().data` (app.py:78); it is not guarded, so a failure
\* reaches the loop
GetMe ==
    /\ pc = "get_me"
    /\ \E res \in Outcomes :
         /\ log' = Append(log, Event("get_me", NoId, res))
         /\ pc' = CASE res = "ok" -> "load" [] res = "rate" -> "exc_rate"
                    [] OTHER -> "exc"
    /\ UNCHANGED << config, history, locals, world, first, stateFile, ticks, file0 >>

\* `st = load_state(); since_id = st.get("last_mention_id")`: .get raises
\* AttributeError on a value that is not a dict
LoadState ==
    /\ pc = "load"
    /\ st' = load_state(stateFile)
    /\ IF st'.type = "dict"
       THEN /\ since_id' = st'.last_mention_id
            /\ pc' = "fetch"
       ELSE /\ since_id' = since_id
            /\ pc' = "exc"
    /\ UNCHANGED << config, history, world, first, first_run, stateFile, tweets, i,
                    actions, log, ticks, file0 >>

\* the fetch, its two handlers, the empty-page return and `tweets[0]`
\* (app.py:94-108); tweets[0] of an empty list raises IndexError
FetchMentions ==
    /\ pc = "fetch"
    /\ \E res \in Outcomes : \E reset \in ResetsOf(res) :
         /\ log' = Append(log, Event("fetch", since_id, res))
                     \o Sleep60(res, reset)
         /\ IF res # "ok"
            THEN /\ pc' = AfterFetchError(res)
                 /\ tweets' = tweets
            ELSE LET page == GetUsersMentions(Kwargs(since_id))
                 IN  /\ tweets' = page
                     /\ pc' = IF NoNewMentions(page) THEN "ret"
                              ELSE IF page = << >> THEN "exc"
                              ELSE IF SkipOld(first_run, since_id) THEN "baseline"
                              ELSE "loop"
    /\ UNCHANGED << config, history, world, first, first_run, stateFile, st, since_id,
                    i, actions, ticks, file0 >>

\* a file cut short: write_text opens the file with mode "w", which empties
\* it, and writes the text afterwards; no proper prefix of the text is JSON
Torn == [kind |-> "invalid", last_mention_id |-> NoId]

\* how save_state may end: it returns; it raises OSError (only with
\* faults); the process dies in it (only with faults)
SaveOutcomes == IF faulty THEN {"ok", "err", "crash"} ELSE {"ok"}

\* the file after save_state(d) ended with res: written; on an error not
\* opened at all or left cut short; on a crash any of the three
FilesAfter(d, res) ==
    CASE res = "ok"  -> {save_state(d)}
      [] res = "err" -> {stateFile, Torn}
      [] OTHER       -> {stateFile, Torn, save_state(d)}

\* `save_state(st)` as the last statement of handle_mentions (app.py:113,
\* 152): an OSError reaches the poll loop
WriteState ==
    \E res \in SaveOutcomes :
        /\ stateFile' \in FilesAfter(st', res)
        /\ log' = Append(log, Event("save", st'.last_mention_id, res))
        /\ pc' = CASE res = "ok" -> "ret" [] res = "err" -> "exc"
                   [] OTHER -> "crashed"

\* the first-run branch (app.py:111-115): set the pointer and return
SetPointer ==
    /\ pc = "baseline"
    /\ st' = [st EXCEPT !.last_mention_id = NewestId(tweets)]
    /\ WriteState
    /\ UNCHANGED << config, history, world, first, first_run, since_id, tweets, i,
                    actions, ticks, file0 >>

\* the head of the for loop (app.py:118-122): end of the list, budget,
\* own tweet
LoopHead ==
    /\ pc = "loop"
    /\ IF i > Len(tweets) \/ BudgetReached(actions)
       THEN /\ pc' = "advance"
            /\ i' = i
       ELSE IF IsOwn(LoopOrder(tweets)[i])
       THEN /\ pc' = "loop"
            /\ i' = i + 1
       ELSE /\ pc' = "like"
            /\ i' = i
    /\ UNCHANGED << config, history, world, first, first_run, stateFile, st, since_id,
                    tweets, actions, log, ticks, file0 >>

\* `client.like(tw.id)` and its handlers (app.py:125-134)
Like ==
    /\ pc = "like"
    /\ \E res \in Outcomes : \E reset \in ResetsOf(res) :
         /\ log' = Append(log, Event("like", LoopOrder(tweets)[i].id, res))
                     \o Sleep60(res, reset)
         /\ pc' = AfterLike(res)
    /\ UNCHANGED << config, history, locals, world, first, stateFile, ticks, file0 >>

\* `client.create_tweet(...)` and its handlers (app.py:137-149)
Reply ==
    /\ pc = "reply"
    /\ \E res \in Outcomes : \E reset \in ResetsOf(res) :
         /\ log' = Append(log, Event("reply", LoopOrder(tweets)[i].id, res))
                     \o Sleep60(res, reset)
         /\ actions' = CountReply(actions, res)
         /\ pc' = AfterReply(res)
         /\ i' = IF pc' = "loop" THEN i + 1 ELSE i
    /\ UNCHANGED << config, history, world, first, first_run, stateFile, st, since_id,
                    tweets, ticks, file0 >>

\* after the loop (app.py:151-152): advance the pointer
AdvancePointer ==
    /\ pc = "advance"
    /\ st' = [st EXCEPT !.last_mention_id = NewestId(tweets)]
    /\ WriteState
    /\ UNCHANGED << config, history, world, first, first_run, since_id, tweets, i,
                    actions, ticks, file0 >>

\* handle_mentions' frame is gone
Forget ==
    /\ first_run' = FALSE
    /\ st' = EmptyDict
    /\ since_id' = NoId
    /\ tweets' = << >>
    /\ i' = 1
    /\ actions' = 0
    /\ log' = << >>
    /\ file0' = stateFile
    /\ history' =
         [seen    |-> history.seen \cup
                        (IF \E k \in DOMAIN log :
                               log[k].op = "save" /\ log[k].res = "ok"
                         THEN { tweets[k].id : k \in DOMAIN tweets } ELSE {}),
          liked   |-> history.liked \cup
                        { log[k].arg : k \in { j \in DOMAIN log :
                            log[j].op = "like" /\ log[j].res = "ok" } },
          replied |-> history.replied \cup
                        { log[k].arg : k \in { j \in DOMAIN log :
                            log[j].op = "reply" /\ log[j].res = "ok" } }]

\* handle_mentions returned: `first = False; time.sleep(POLL_SECONDS)`
Return ==
    /\ pc = "ret"
    /\ first' = FALSE
    /\ pc' = "tick"
    /\ Forget
    /\ UNCHANGED << config, world, stateFile, ticks >>

\* `except tweepy.errors.TooManyRequests`: sleep 60, next tick
CatchRateLimit ==
    /\ pc = "exc_rate"
    /\ pc' = "tick"
    /\ Forget
    /\ UNCHANGED << config, world, first, stateFile, ticks >>

\* a bug: no `except Exception` clause, the error ends the loop
CatchErrorMissing ==
    /\ pc = "exc"
    /\ pc' = "exited"
    /\ UNCHANGED << config, history, locals, world, first, stateFile, log,
                    ticks, file0 >>

\* `except Exception`: sleep 30, next tick
CatchError ==
    /\ pc = "exc"
    /\ pc' = "tick"
    /\ Forget
    /\ UNCHANGED << config, world, first, stateFile, ticks >>

Next ==
    \/ NewMention
    \/ Startup
    \/ Tick
    \/ GetMe
    \/ LoadState
    \/ FetchMentions
    \/ SetPointer
    \/ LoopHead
    \/ Like
    \/ Reply
    \/ AdvancePointer
    \/ Return
    \/ CatchRateLimit
    \/ CatchError

Spec == Init /\ [][Next]_vars

\* the thread keeps running: the sleep of a handler ends and the `while True`
\* loop goes round, so a handler that can run does run and a tick that can
\* begin does begin
LiveSpec ==
    Spec /\ WF_vars(Tick) /\ WF_vars(CatchRateLimit) /\ WF_vars(CatchError)

\* the same program on a disk that may fail and in a process that may die
SpecFault == InitFault /\ [][Next]_vars

----------------------------------------------------------------------------
(* Reading the history *)

IsAttempt(e) == e.op \in {"like", "reply"}

\* the like and reply calls of the current cycle, in order
Attempts == SelectSeq(log, IsAttempt)

Happened(op, res) == \E k \in DOMAIN log : log[k].op = op /\ log[k].res = res

\* the platform's record of a mention
AuthorOf(id) == (CHOOSE m \in mentions : m.id = id).author_id

PageIds == { tweets[k].id : k \in DOMAIN tweets }

\* the newest mention of the fetched page, by the platform's id order
NewestFetched == CHOOSE n \in PageIds : \A m \in PageIds : n >= m

\* the fetched mentions that are not the bot's own
OthersIds == { n \in PageIds : AuthorOf(n) # MyId }

\* the file holds exactly the cursor c
Persisted(c) == stateFile = [kind |-> "object", last_mention_id |-> c]

InCycle == pc \notin {"start", "tick", "returned", "exited", "crashed"}

----------------------------------------------------------------------------
(* The claims *)

\* C1: in every cycle, neither like nor create_tweet is called on a mention
\* whose author is the bot's own account.
C1_NeverActsOnOwn ==
    \A k \in DOMAIN log : IsAttempt(log[k]) => AuthorOf(log[k].arg) # MyId

\* C1's case: the page holds a mention of the bot's own and the loop has
\* passed it and liked a newer one
C1_Witness ==
    \E k \in DOMAIN log : \E n \in PageIds :
        IsAttempt(log[k]) /\ AuthorOf(n) = MyId /\ n < log[k].arg

\* C2: a cycle called with first_run = true that finds no persisted cursor
\* and fetches a non-empty page calls neither like nor reply, and all it
\* changes is the persisted cursor, which becomes the newest fetched id.
C2_FirstRunOnlySetsPointer ==
    (pc = "ret" /\ first_run /\ CursorOf(file0) = NoId /\ tweets # << >>)
        => /\ Attempts = << >>
           /\ Persisted(NewestFetched)

\* C2's case: such a cycle has returned from a page of several mentions, one
\* of them somebody else's
C2_Witness ==
    /\ pc = "ret" /\ first_run /\ CursorOf(file0) = NoId
    /\ Len(tweets) >= 2
    /\ OthersIds # {}

\* C3: the first-run flag passed to handle_mentions is true on the first
\* tick since process start and false on every later tick.
C3_FirstRunOnlyOnFirstTick == InCycle => (first_run = (ticks = 1))

\* C4: no step moves the persisted cursor backward, and a cursor that is set
\* never becomes empty (the empty cursor is below every id).
C4_CursorNeverMovesBack ==
    [][CursorOf(stateFile') >= CursorOf(stateFile)]_vars

\* C4's case: a cycle that began with a cursor has written a larger one
C4_Witness ==
    /\ pc = "ret"
    /\ CursorOf(file0) # NoId
    /\ CursorOf(stateFile) > CursorOf(file0)

\* the replies of the current cycle that succeeded
RepliesDone ==
    Cardinality({ k \in DOMAIN log : log[k].op = "reply" /\ log[k].res = "ok" })

\* C5: within one cycle at most MAX_ACTIONS_PER_RUN replies succeed.
C5_AtMostBudgetReplies == RepliesDone <= MAX_ACTIONS_PER_RUN

\* C5's case: the budget is used up after a failed reply that did not count,
\* and a mention of somebody else is left without any call
C5_Witness ==
    /\ pc = "ret"
    /\ Happened("reply", "err")
    /\ RepliesDone = MAX_ACTIONS_PER_RUN
    /\ \E n \in OthersIds : \A k \in DOMAIN log : IsAttempt(log[k]) => log[k].arg # n

\* C6: within one cycle the calls go from the oldest mention to the newest,
\* and on each mention the like comes first and the reply right after it.
C6_OldestToNewest ==
    LET A == Attempts
    IN  /\ \A k, l \in DOMAIN A :
             k < l => \/ A[k].arg < A[l].arg
                      \/ /\ A[k].arg = A[l].arg
                         /\ A[k].op = "like"
                         /\ A[l].op = "reply"
        /\ \A l \in DOMAIN A :
             A[l].op = "reply"
                => /\ l > 1
                   /\ A[l - 1].op = "like"
                   /\ A[l - 1].arg = A[l].arg

\* C6's case: calls were made on two mentions of the page
C6_Witness ==
    LET A == Attempts
    IN  \E k, l \in DOMAIN A : A[k].arg # A[l].arg /\ A[l].op = "reply"

\* C7: after a like or a reply that fails with TooManyRequests no further
\* like or reply is made in the cycle, and the cycle goes on to persist the
\* newest fetched id before it returns.
C7_RateLimitStopsCycle ==
    LET A == Attempts
    IN  \A k \in DOMAIN A :
            A[k].res = "rate"
                => /\ k = Len(A)
                   /\ pc \in {"advance", "ret"}
                   /\ pc = "ret" => Persisted(NewestFetched)

\* C7's case: a like was rate limited, a newer mention of somebody else was
\* still to come, and the cycle has returned
C7_Witness ==
    /\ pc = "ret"
    /\ \E k \in DOMAIN log :
         /\ log[k].op = "like" /\ log[k].res = "rate"
         /\ \E n \in OthersIds : n > log[k].arg

\* the B oldest of a set of ids
Oldest(S, B) == { n \in S : Cardinality({ m \in S : m < n }) < B }

\* the j-th smallest id of S
Nth(S, j) == CHOOSE n \in S : Cardinality({ m \in S : m < n }) = j - 1

AllSucceeded == \A k \in DOMAIN log : IsAttempt(log[k]) => log[k].res = "ok"

\* C8: with a cursor, first_run = false and every like and reply succeeding,
\* the cycle likes and then replies to exactly the min(B, n) oldest fetched
\* mentions of others, in order, and sets the cursor to the newest fetched id.
C8_AllSucceed ==
    (/\ pc = "ret" /\ ~first_run /\ CursorOf(file0) # NoId /\ tweets # << >>
     /\ AllSucceeded)
        => LET acted == Oldest(OthersIds, MAX_ACTIONS_PER_RUN)
               A == Attempts
           IN  /\ Len(A) = 2 * Cardinality(acted)
               /\ \A j \in 1 .. Cardinality(acted) :
                    /\ A[2 * j - 1] = Event("like", Nth(acted, j), "ok")
                    /\ A[2 * j] = Event("reply", Nth(acted, j), "ok")
               /\ Persisted(NewestFetched)

\* C8's case: such a cycle with more mentions of others than the budget
C8_Witness ==
    /\ pc = "ret" /\ ~first_run /\ CursorOf(file0) # NoId
    /\ AllSucceeded
    /\ Happened("reply", "ok")
    /\ Cardinality(OthersIds) > MAX_ACTIONS_PER_RUN

\* what the cycle wrote or did on the platform
NoEffect ==
    /\ stateFile = file0
    /\ \A k \in DOMAIN log : log[k].op \notin {"like", "reply", "save"}

\* C9: a cycle whose fetch returns an empty page returns without a like, a
\* reply or a save: the persisted state is what it was.
C9_EmptyPageIsNoOp ==
    (Happened("fetch", "ok") /\ tweets = << >>) => (pc = "ret" /\ NoEffect)

\* C9's case: a cycle with a cursor found nothing newer among existing
\* mentions
C9_Witness ==
    /\ pc = "ret" /\ Happened("fetch", "ok") /\ tweets = << >>
    /\ CursorOf(file0) # NoId
    /\ mentions # {}

\* C10: a cycle whose fetch fails, rate limited or otherwise, returns
\* normally without a like or a reply and leaves the cursor as it was.
C10_FetchFailure ==
    (Happened("fetch", "rate") \/ Happened("fetch", "err"))
        => (pc = "ret" /\ NoEffect)

\* C10's case: a fetch failed with an error other than the rate limit while
\* mentions of others were waiting
C10_Witness ==
    /\ pc = "ret"
    /\ Happened("fetch", "err")
    /\ \E m \in mentions : m.author_id # MyId /\ m.id > CursorOf(stateFile)

\* the cycle got past `st.get("last_mention_id")` or failed there: the
\* identity lookup, if any, succeeded and the load step was taken
PastLoad ==
    /\ InCycle /\ pc \notin {"get_me", "load"}
    /\ ~Happened("get_me", "rate") /\ ~Happened("get_me", "err")

\* C11: whenever the state file is absent or holds anything but a JSON
\* object, load_state yields an empty cursor and the cycle goes on as with
\* no prior cursor instead of failing.
C11_LoadYieldsEmptyCursor ==
    (PastLoad /\ file0.kind # "object")
        => (st.type = "dict" /\ since_id = NoId /\ pc # "exc")

\* C13: a setup failure (credentials, USER_ID, the first identity lookup)
\* never ends the poll loop: the bot is never left alive without further
\* ticks, and the process is never ended by it.
C13_SetupFailureNeverEndsLoop == pc \notin {"returned", "exited"}

\* C15: when the process started without a persisted cursor, no mention that
\* existed before the first tick is ever liked or replied to.  (A cycle that
\* begins without a cursor belongs to a process that started without one.)
C15_BacklogNeverActedOn ==
    CursorOf(file0) = NoId
        => \A k \in DOMAIN log : IsAttempt(log[k]) => log[k].arg > MaxBacklog

\* C18: a like that fails otherwise than by the rate limit is followed by
\* the reply on the same mention; a reply that fails so does not count and
\* the loop goes on to the next mention of others, if there is one; the
\* counter equals the number of successful replies throughout.
C18_FailuresDoNotBlock ==
    LET A == Attempts
    IN  /\ InCycle => actions = RepliesDone
        /\ \A k \in DOMAIN A :
             (A[k].op = "like" /\ A[k].res = "err")
                => IF k = Len(A) THEN pc = "reply"
                   ELSE A[k + 1].op = "reply" /\ A[k + 1].arg = A[k].arg
        /\ \A k \in DOMAIN A :
             (A[k].op = "reply" /\ A[k].res = "err")
                => IF k = Len(A)
                   THEN /\ pc \in {"loop", "like", "advance", "ret"}
                        /\ pc \in {"advance", "ret"}
                             => \A n \in OthersIds : n <= A[k].arg
                   ELSE A[k + 1].op = "like" /\ A[k + 1].arg > A[k].arg

\* C18's case: a like failed and its reply followed, that reply failed too,
\* and with the whole budget left the next mention was liked
C18_Witness ==
    LET A == Attempts
    IN  /\ Len(A) >= 3
        /\ A[1].res = "err" /\ A[2].res = "err"
        /\ MAX_ACTIONS_PER_RUN = DefaultMaxActions

\* the likes of the current cycle that succeeded
LikesDone ==
    Cardinality({ k \in DOMAIN log : log[k].op = "like" /\ log[k].res = "ok" })

\* the replies of the current cycle that failed
RepliesFailed ==
    Cardinality({ k \in DOMAIN log : log[k].op = "reply" /\ log[k].res # "ok" })

\* C19 as claimed: within one cycle at most MAX_ACTIONS_PER_RUN mentions are
\* liked, whatever the outcomes of the replies.
C19_BudgetCapsLikes == LikesDone <= MAX_ACTIONS_PER_RUN

\* C19 as amended: within one cycle the mentions liked are at most
\* MAX_ACTIONS_PER_RUN plus the replies that failed in the cycle.
C19_LikesWithinBudgetPlusFailures ==
    LikesDone <= MAX_ACTIONS_PER_RUN + RepliesFailed

\* C19's case: more mentions were liked than the budget
C19_Witness == pc = "ret" /\ LikesDone > MAX_ACTIONS_PER_RUN

\* the pause C14 claims for an error with the given reset time: the time
\* until the reset, kept within 10 seconds and 15 minutes; 60 seconds
\* without a reset time
ClaimedPause(reset) ==
    IF reset = NoReset THEN 60
    ELSE IF reset < 10 THEN 10
    ELSE IF reset > 15 * 60 THEN 15 * 60
    ELSE reset

C16_SkippedNeverRetried ==
    \A k \in DOMAIN log : IsAttempt(log[k]) => log[k].arg \notin history.seen

\* C16's case: an earlier cycle persisted its cursor past a mention of
\* somebody else that it neither liked nor replied to, and a later cycle is
\* acting on a newer mention
C16_Witness ==
    /\ \E n \in history.seen \ (history.liked \cup history.replied) :
         AuthorOf(n) # MyId
    /\ Happened("like", "ok")

\* C17: over the whole run no mention gets a second successful like or a
\* second successful reply, also after cycles that ended by an exception.
C17_NeverProcessedTwice ==
    \A k \in DOMAIN log :
        /\ (log[k].op = "like" /\ log[k].res = "ok")
              => log[k].arg \notin history.liked
        /\ (log[k].op = "reply" /\ log[k].res = "ok")
              => log[k].arg \notin history.replied

\* C20: after a crash during save_state the file holds the complete old or
\* the complete new value, so that load_state yields the old or the new
\* cursor, never an empty one in their place.
C20_CrashLeavesOldOrNew ==
    pc = "crashed"
        => CursorOf(stateFile) \in {CursorOf(file0), st.last_mention_id}

Raised == pc \in {"exc", "exc_rate"}

\* C12: no error raised by a tick stops the poll loop: whenever an exception
\* escapes handle_mentions in the n-th tick, the loop catches it and the
\* next tick begins (for every tick but the last one the model follows).
C12_TickFollowsError ==
    \A n \in 1 .. MaxTicks - 1 :
        (Raised /\ ticks = n) ~> (~Raised /\ ticks = n + 1)

\* C12's case: in app.py `first` is still set in the second tick, which is so
\* only when the first tick raised
C12_Witness == entry = "app" /\ first /\ ticks > 1 /\ InCycle

====
